---------------------------- MODULE Spec2Model ----------------------------
(***************************************************************************)
(* Model of the OS Monitor extension (src/src/extension.ts): the CPU load  *)
(* tracker, the network throughput tracker, the disk usage probe, the      *)
(* bandwidth probe and the status-bar tick that composes them, as they run *)
(* on the Node.js event loop.  One action is one event-loop turn (a        *)
(* callback together with the promise continuations it triggers).          *)
(***************************************************************************)
EXTENDS Integers, Sequences, FiniteSets, TLC

VARIABLES
    active,               \* whether activate() has run
    platform,             \* os.platform()
    now,                  \* Date.now(), in ms
    previousCpus,         \* extension.ts:131
    prevNet,              \* extension.ts:216
    isTestingSpeed,       \* extension.ts:10
    lastSpeedTestResult,  \* extension.ts:9
    ticks,                \* the executions of updateStatusBarItem
    probes,               \* the executions of runSpeedTest
    statusBar,            \* myStatusBarItem's text fields
    notifications,        \* messages shown by vscode.window.show*Message
    calls,                \* calls made so far: of the function a unit specification
                          \* drives, of runSpeedTest past its guard otherwise
    arg,                  \* the input of the last call, in the unit specifications;
                          \* what the last tick to write was given, otherwise
    ret                   \* what the last call returned, in the unit specifications;
                          \* how the last handler ended, otherwise: "written" (a tick
                          \* wrote the status bar), "rejected" (the promise of a
                          \* tick rejected) or "skipped" (runSpeedTest returned at
                          \* its guard)

vars == <<active, platform, now, previousCpus, prevNet, isTestingSpeed,
          lastSpeedTestResult, ticks, probes, statusBar, notifications,
          calls, arg, ret>>

-----------------------------------------------------------------------------
(* Bounds of the model.                                                    *)

MaxCores == 2
MaxCpuTime == 1
MaxCalls == 2
MaxClock == 2
MaxTicks == 2
MaxStalled == 1

-----------------------------------------------------------------------------
(* Number.prototype.toFixed on the rational num/den (den # 0): rounds to   *)
(* the nearest, halves away from zero, and keeps the sign of a negative    *)
(* value that rounds to zero ("-0.0").                                     *)

Abs(x) == IF x < 0 THEN -x ELSE x

\* n/d (n >= 0, d > 0) rounded to the nearest integer, halves up.
RoundHalfUp(n, d) == (n \div d) + (IF (n % d) >= d - (n % d) THEN 1 ELSE 0)

RECURSIVE Gcd(_, _)
Gcd(a, b) == IF b = 0 THEN a ELSE Gcd(b, a % b)

\* m * n / d (m > 0, n >= 0, d > 0) rounded to the nearest integer, halves
\* up; the fraction is reduced first to keep the products small.
RoundScaled(m, n, d) ==
    LET g1 == Gcd(n, d)
        n1 == n \div g1
        d1 == d \div g1
        g2 == Gcd(m, d1)
    IN  RoundHalfUp((m \div g2) * n1, d1 \div g2)

ToFixed1(num, den) ==
    LET neg == num # 0 /\ ((num < 0) # (den < 0))
        t   == RoundScaled(10, Abs(num), Abs(den))
    IN  (IF neg THEN "-" ELSE "") \o ToString(t \div 10) \o "." \o ToString(t % 10)

\* (m * num / den).toFixed(0), m > 0.
ToFixed0(m, num, den) ==
    LET neg == num # 0 /\ ((num < 0) # (den < 0))
    IN  (IF neg THEN "-" ELSE "") \o ToString(RoundScaled(m, Abs(num), Abs(den)))

\* Helpers of the statements about the code (not used by the model of it).
SumSeq(s) ==
    LET f[i \in 0..Len(s)] == IF i = 0 THEN 0 ELSE f[i - 1] + s[i]
    IN  f[Len(s)]

TenthsString(k) == ToString(k \div 10) \o "." \o ToString(k % 10)

-----------------------------------------------------------------------------
(* CPU load tracker: calculateCpuUsage.                                    *)

\* The for..in sum over a core's times (extension.ts:144-149).
TimesTotal(t) == t.user + t.nice + t.sys + t.idle + t.irq

\* os.CpuInfo.times; the model lets user and idle vary, up to a grand
\* total of MaxCpuTime per core.
CpuTimes == {t \in [user : 0..MaxCpuTime, nice : {0}, sys : {0},
                    idle : 0..MaxCpuTime, irq : {0}] : TimesTotal(t) <= MaxCpuTime}

RECURSIVE SeqsUpTo(_, _)
SeqsUpTo(S, n) ==
    IF n = 0 THEN {<<>>}
    ELSE LET shorter == SeqsUpTo(S, n - 1)
         IN  shorter \cup {Append(s, x) : s \in {q \in shorter : Len(q) = n - 1}, x \in S}

\* The values os.cpus() may return.
CpuSamples == SeqsUpTo(CpuTimes, MaxCores)

RECURSIVE SumIdleDiff(_, _, _)
SumIdleDiff(cur, prev, i) ==
    IF i > Len(cur) THEN 0
    ELSE (cur[i].idle - prev[i].idle) + SumIdleDiff(cur, prev, i + 1)

RECURSIVE SumTotalDiff(_, _, _)
SumTotalDiff(cur, prev, i) ==
    IF i > Len(cur) THEN 0
    ELSE (TimesTotal(cur[i]) - TimesTotal(prev[i])) + SumTotalDiff(cur, prev, i + 1)

\* previousCpus[i] is undefined for an index past its end, and reading
\* .times of undefined throws a TypeError (extension.ts:147).
CpuThrows(prev, cur) == Len(cur) > Len(prev)

\* A variant that reports the idle share instead of the busy share.
CpuUsageStringIdleShare(idleDiff, totalDiff) ==
    IF totalDiff = 0 THEN "0.0"
    ELSE ToFixed1(100 * idleDiff, totalDiff)

\* extension.ts:160-163.
CpuUsageString(idleDiff, totalDiff) ==
    IF totalDiff = 0 THEN "0.0"
    ELSE ToFixed1(100 * (totalDiff - idleDiff), totalDiff)

\* calculateCpuUsage(currentCpus) with previousCpus = prev: whether it
\* throws, the value it returns and the previousCpus it leaves.
calculateCpuUsage(prev, cur) ==
    IF CpuThrows(prev, cur)
    THEN [threw |-> TRUE, out |-> "TypeError", prev |-> prev]
    ELSE [threw |-> FALSE,
          out   |-> CpuUsageString(SumIdleDiff(cur, prev, 1), SumTotalDiff(cur, prev, 1)),
          prev  |-> cur]

-----------------------------------------------------------------------------
(* Network throughput tracker: getTrafUsage.                               *)

Platforms == {"linux", "win32", "darwin"}

\* The values Date.now() takes in the model, in ms.
ClockValues == {1000 * k : k \in 1..MaxClock}

\* /proc/net/dev as its interface rows: the name before the colon, the
\* receive bytes and the transmit bytes.
Iface(name, rx, tx) == [name |-> name, rx |-> rx, tx |-> tx]

NetFiles ==
    { <<Iface("lo", 700, 700)>>,
      <<Iface("lo", 700, 700), Iface("eth0", 600, 400)>>,
      <<Iface("lo", 900, 900), Iface("eth0", 1000, 500)>>,
      <<Iface("eth0", 600000, 400000)>>,
      <<Iface("eth0", 1000000, 500000), Iface("wlan0", 1000000, 500000)>> }

\* What fs.readFile hands its callback: an error, or the file.
ReadErr == [err |-> TRUE, data |-> <<>>]
ReadOk(file) == [err |-> FALSE, data |-> file]
ReadResults == {ReadErr} \cup {ReadOk(f) : f \in NetFiles}

\* The loop over the rows (extension.ts:232-256): the loopback row is
\* skipped, the others add rx + tx.
RECURSIVE SumBytes(_, _)
SumBytes(file, i) ==
    IF i > Len(file) THEN 0
    ELSE (IF file[i].name = "lo" THEN 0 ELSE file[i].rx + file[i].tx)
         + SumBytes(file, i + 1)

\* A variant without the guard on the byte difference.
NetMbpsUnguarded(prev, total, t) ==
    IF prev.time > 0 /\ t - prev.time > 0
    THEN [num |-> 8 * (total - prev.bytes), den |-> 1000 * (t - prev.time)]
    ELSE [num |-> 0, den |-> 1]

\* mbps as the fraction num/den (extension.ts:258-266):
\* bytesDiff / ((now - prev.time) / 1000) * 8 / (1000 * 1000).
NetMbps(prev, total, t) ==
    IF prev.time > 0 /\ t - prev.time > 0 /\ total - prev.bytes >= 0
    THEN [num |-> 8 * (total - prev.bytes), den |-> 1000 * (t - prev.time)]
    ELSE [num |-> 0, den |-> 1]

\* A variant that always shows megabits.
RateDisplayMbpsOnly(mbps) == ToFixed1(mbps.num, mbps.den) \o "Mbps"

\* extension.ts:270-274.
RateDisplay(mbps) ==
    IF mbps.num < mbps.den
    THEN ToFixed0(1000, mbps.num, mbps.den) \o "Kbps"
    ELSE ToFixed1(mbps.num, mbps.den) \o "Mbps"

\* A variant that stores the sample only when it reports a rate above 0.
TrafCallbackKeepOnZero(prev, t, read) ==
    IF read.err
    THEN [out |-> "0Kbps", prev |-> prev]
    ELSE LET total == SumBytes(read.data, 1)
             mbps  == NetMbps(prev, total, t)
         IN  [out  |-> RateDisplay(mbps),
              prev |-> IF mbps.num = 0 THEN prev ELSE [bytes |-> total, time |-> t]]

\* The readFile callback of getTrafUsage at time t with prevNet = prev:
\* the string it resolves with and the prevNet it leaves.
TrafCallback(prev, t, read) ==
    IF read.err
    THEN [out |-> "0Kbps", prev |-> prev]
    ELSE LET total == SumBytes(read.data, 1)
         IN  [out  |-> RateDisplay(NetMbps(prev, total, t)),
              prev |-> [bytes |-> total, time |-> t]]

-----------------------------------------------------------------------------
(* Text, as the sequence of its characters, with the String methods the    *)
(* disk probe uses.                                                        *)

IsSpace(c) == c \in {" ", "\t", "\n", "\r"}

\* String.prototype.trim.
RECURSIVE TrimLeft(_)
TrimLeft(s) == IF s = <<>> \/ ~IsSpace(Head(s)) THEN s ELSE TrimLeft(Tail(s))

RECURSIVE TrimRight(_)
TrimRight(s) ==
    IF s = <<>> \/ ~IsSpace(s[Len(s)]) THEN s ELSE TrimRight(SubSeq(s, 1, Len(s) - 1))

Trim(s) == TrimRight(TrimLeft(s))

\* s.split(sep) for a one-character separator: cur is the piece being read,
\* acc the pieces read.
RECURSIVE SplitAcc(_, _, _, _)
SplitAcc(s, sep, cur, acc) ==
    IF s = <<>> THEN Append(acc, cur)
    ELSE IF Head(s) = sep
         THEN SplitAcc(Tail(s), sep, <<>>, Append(acc, cur))
         ELSE SplitAcc(Tail(s), sep, Append(cur, Head(s)), acc)

Split(s, sep) == SplitAcc(s, sep, <<>>, <<>>)

\* s.split(/\s+/): the pieces between the maximal runs of whitespace.
RECURSIVE SplitWsAcc(_, _, _, _)
SplitWsAcc(s, cur, acc, inRun) ==
    IF s = <<>> THEN Append(acc, cur)
    ELSE IF IsSpace(Head(s))
         THEN IF inRun THEN SplitWsAcc(Tail(s), cur, acc, TRUE)
              ELSE SplitWsAcc(Tail(s), <<>>, Append(acc, cur), TRUE)
         ELSE SplitWsAcc(Tail(s), Append(cur, Head(s)), acc, FALSE)

SplitWs(s) == SplitWsAcc(s, <<>>, <<>>, FALSE)

-----------------------------------------------------------------------------
(* Disk usage probe: getDiskUsage.                                         *)

Unknown == <<"?">>

\* What cp.exec hands its callback.
ExecErr == [err |-> TRUE, stdout |-> <<>>]
ExecOk(text) == [err |-> FALSE, stdout |-> text]

\* A variant that reads the first line (the header) instead of the second.
DfParseFirstLine(exec) ==
    IF exec.err THEN Unknown
    ELSE LET lines == Split(Trim(exec.stdout), "\n")
         IN  IF Len(lines) >= 2
             THEN LET parts == SplitWs(Trim(lines[1]))
                  IN  IF Len(parts) >= 3
                      THEN parts[2] \o <<"/">> \o parts[1] \o <<" ">> \o parts[3]
                      ELSE Unknown
             ELSE Unknown

\* The callback of the df command (extension.ts:195-211).
DfParse(exec) ==
    IF exec.err THEN Unknown
    ELSE LET lines == Split(Trim(exec.stdout), "\n")
         IN  IF Len(lines) >= 2
             THEN LET parts == SplitWs(Trim(lines[2]))
                  IN  IF Len(parts) >= 3
                      THEN parts[2] \o <<"/">> \o parts[1] \o <<" ">> \o parts[3]
                      ELSE Unknown
             ELSE Unknown

\* Outputs of df -h --output=size,used,pcent / and malformed ones: a
\* header (or none), a row of 0 to 4 columns, and the end of the text.
DfHeaders == { <<"S", "i", "z", "e", " ", "U", "s", "e", "d", " ", "U", "s", "e", "%">>,
               <<" ", "S", "i", "z", "e", " ", " ", "U", "s", "e", "d", " ", "U", "s", "e", "%">> }
DfRows == { <<>>,
            <<"2", "0", "G">>,
            <<"2", "0", "G", " ", "1", "0", "G">>,
            <<"2", "0", "G", " ", "1", "0", "G", " ", "5", "3", "%">>,
            <<" ", " ", "2", "0", "G", " ", " ", " ", "1", "0", "G", " ", " ", "5", "3", "%">>,
            <<"9", ".", "8", "G", "\t", "1", ".", "2", "G", " ", "1", "3", "%", " ", "/">>,
            <<"0", " ", "0", " ", "-">> }
DfEnds == { <<>>, <<"\n">> }

DfOutputs ==
    {<<>>, <<"\n">>}
    \cup {h \o e : h \in DfHeaders, e \in DfEnds}
    \cup {h \o <<"\n">> \o r \o e : h \in DfHeaders, r \in DfRows, e \in DfEnds}

DfResults == {ExecErr} \cup {ExecOk(t) : t \in DfOutputs}

\* Digits as characters and back.
DigitChars == <<"0", "1", "2", "3", "4", "5", "6", "7", "8", "9">>
IsDigit(c) == \E d \in 1..10 : DigitChars[d] = c
DigitValue(c) == (CHOOSE d \in 1..10 : DigitChars[d] = c) - 1

RECURSIVE NatChars(_)
NatChars(n) ==
    IF n < 10 THEN <<DigitChars[n + 1]>>
    ELSE NatChars(n \div 10) \o <<DigitChars[(n % 10) + 1]>>

\* A JavaScript number: an integer, NaN, or an infinity.
Num(v) == [kind |-> "num", v |-> v]
NaN == [kind |-> "nan", v |-> 0]
Infinity == [kind |-> "inf", v |-> 1]
NegInfinity == [kind |-> "inf", v |-> -1]

\* parseInt(s) on a token without whitespace: an optional sign, then the
\* leading decimal digits; NaN when there is none.
RECURSIVE LeadingDigits(_, _)
LeadingDigits(s, acc) ==
    IF s = <<>> \/ ~IsDigit(Head(s)) THEN acc
    ELSE LeadingDigits(Tail(s), 10 * acc + DigitValue(Head(s)))

ParseInt(s) ==
    LET neg  == s # <<>> /\ Head(s) = "-"
        body == IF s # <<>> /\ Head(s) \in {"-", "+"} THEN Tail(s) ELSE s
    IN  IF body = <<>> \/ ~IsDigit(Head(body)) THEN NaN
        ELSE Num((IF neg THEN -1 ELSE 1) * LeadingDigits(body, 0))

NumSub(a, b) == IF a.kind = "num" /\ b.kind = "num" THEN Num(a.v - b.v) ELSE NaN

\* (a / d).toFixed(0) for a number a and a positive integer d.
QuotientFixed0(a, d) ==
    IF a.kind = "nan" THEN <<"N", "a", "N">>
    ELSE (IF a.v < 0 THEN <<"-">> ELSE <<>>) \o NatChars(RoundHalfUp(Abs(a.v), d))

\* ((a / b) * 100).toFixed(0) for numbers a and b.
PercentFixed0(a, b) ==
    IF a.kind = "nan" \/ b.kind = "nan" \/ (a.v = 0 /\ b.v = 0) THEN <<"N", "a", "N">>
    ELSE IF b.v = 0
         THEN (IF a.v < 0 THEN <<"-">> ELSE <<>>)
              \o <<"I", "n", "f", "i", "n", "i", "t", "y">>
         ELSE (IF a.v # 0 /\ ((a.v < 0) # (b.v < 0)) THEN <<"-">> ELSE <<>>)
              \o NatChars(RoundScaled(100, Abs(a.v), Abs(b.v)))

\* s.includes(pat).
Includes(s, pat) ==
    \E i \in 1..(Len(s) - Len(pat) + 1) : SubSeq(s, i, i + Len(pat) - 1) = pat

\* lines.filter(line => line.trim() !== '').
RECURSIVE NonBlank(_)
NonBlank(lines) ==
    IF lines = <<>> THEN <<>>
    ELSE (IF Trim(Head(lines)) # <<>> THEN <<Head(lines)>> ELSE <<>>)
         \o NonBlank(Tail(lines))

GiB == 1073741824

\* The result for the matching row (extension.ts:180-188).
WmicRow(parts) ==
    LET freeBytes == ParseInt(parts[Len(parts) - 1])
        sizeBytes == ParseInt(parts[Len(parts)])
        usedBytes == NumSub(sizeBytes, freeBytes)
    IN  QuotientFixed0(usedBytes, GiB) \o <<"/">> \o QuotientFixed0(sizeBytes, GiB)
        \o <<"G", "B", " ">> \o PercentFixed0(usedBytes, sizeBytes) \o <<"%">>

\* The loop over the rows after the header (extension.ts:175-191).
RECURSIVE WmicScan(_, _)
WmicScan(lines, i) ==
    IF i > Len(lines) THEN Unknown
    ELSE LET parts == SplitWs(Trim(lines[i]))
         IN  IF Len(parts) >= 3 /\ Includes(parts[Len(parts) - 2], <<"C", ":">>)
             THEN WmicRow(parts)
             ELSE WmicScan(lines, i + 1)

\* The callback of the wmic command (extension.ts:170-192).
WmicParse(exec) ==
    IF exec.err THEN Unknown
    ELSE WmicScan(NonBlank(Split(Trim(exec.stdout), "\n")), 2)

\* Outputs of wmic logicaldisk get size,freespace,caption and malformed
\* ones: a header and up to two rows.  The byte counts stay below 2^31.
WmicHeader == <<"C", "a", "p", "t", "i", "o", "n", " ", " ", "F", "r", "e", "e", "S", "p", "a", "c", "e", " ", " ", "S", "i", "z", "e">>
WmicRows == { <<"C", ":", " ", " ", "5", "0", "0", "0", "0", "0", "0", "0", "0", " ", " ", "2", "0", "0", "0", "0", "0", "0", "0", "0", "0">>,
              <<"D", ":", " ", " ", "1", "0", "0", "0", "0", "0", "0", "0", "0", " ", " ", "4", "0", "0", "0", "0", "0", "0", "0", "0">>,
              <<"D", ":">>,
              <<"C", ":">>,
              <<"C", ":", " ", " ", "n", "/", "a", " ", " ", "n", "/", "a">>,
              <<"C", ":", " ", " ", "0", " ", " ", "0">>,
              <<"C", ":", " ", " ", "2", "0", "0", "0", "0", "0", "0", "0", "0", "0">> }
WmicEol == <<"\r", "\r", "\n">>

WmicOutputs ==
    {<<>>, WmicHeader \o WmicEol}
    \cup {WmicHeader \o WmicEol \o r \o WmicEol : r \in WmicRows}
    \cup {WmicHeader \o WmicEol \o r1 \o WmicEol \o r2 \o WmicEol :
            r1 \in WmicRows, r2 \in WmicRows}

WmicResults == {ExecErr} \cup {ExecOk(t) : t \in WmicOutputs}

\* getDiskUsage: the command's callback by platform (extension.ts:166-214).
DiskCallback(plat, exec) == IF plat = "win32" THEN WmicParse(exec) ELSE DfParse(exec)

ExecResults(plat) == IF plat = "win32" THEN WmicResults ELSE DfResults

-----------------------------------------------------------------------------
(* Values of the variables a specification does not drive.                 *)

NoTicks == <<>>
NoProbes == <<>>
NoStatusBar == [written |-> FALSE, cpu |-> "", ram |-> <<>>, ramPercent |-> <<>>,
                disk |-> <<>>, diskPercent |-> <<>>, traf |-> "", bw |-> ""]

IdleRest ==
    /\ active = FALSE
    /\ platform = "linux"
    /\ now = 0
    /\ prevNet = [bytes |-> 0, time |-> 0]
    /\ isTestingSpeed = FALSE
    /\ lastSpeedTestResult = "N/A"
    /\ ticks = NoTicks
    /\ probes = NoProbes
    /\ statusBar = NoStatusBar
    /\ notifications = <<>>

-----------------------------------------------------------------------------
(* CpuSpec: the CPU tracker alone.  Init is the module load, which takes   *)
(* the first sample (extension.ts:131); each step is one call of           *)
(* calculateCpuUsage with the sample os.cpus() returns at that moment.     *)

CpuInit ==
    /\ IdleRest
    /\ previousCpus \in CpuSamples
    /\ calls = 0
    /\ arg = <<>>
    /\ ret = "none"

CpuCall ==
    /\ calls < MaxCalls
    /\ \E cur \in CpuSamples :
          LET r == calculateCpuUsage(previousCpus, cur)
          IN  /\ previousCpus' = r.prev
              /\ ret' = r.out
              /\ arg' = cur
    /\ calls' = calls + 1
    /\ UNCHANGED <<active, platform, now, prevNet, isTestingSpeed, lastSpeedTestResult,
                   ticks, probes, statusBar, notifications>>

CpuNext == CpuCall

CpuSpec == CpuInit /\ [][CpuNext]_vars

-----------------------------------------------------------------------------
(* DiskSpec: the disk probe alone.  Each DiskCall is one getDiskUsage with *)
(* the callback of its command.                                            *)

DiskInit ==
    /\ active = FALSE
    /\ platform \in Platforms
    /\ now = 0
    /\ previousCpus = <<>>
    /\ prevNet = [bytes |-> 0, time |-> 0]
    /\ isTestingSpeed = FALSE
    /\ lastSpeedTestResult = "N/A"
    /\ ticks = NoTicks
    /\ probes = NoProbes
    /\ statusBar = NoStatusBar
    /\ notifications = <<>>
    /\ calls = 0
    /\ arg = <<>>
    /\ ret = "none"

DiskCall ==
    /\ calls < MaxCalls
    /\ \E exec \in ExecResults(platform) :
          /\ ret' = DiskCallback(platform, exec)
          /\ arg' = exec
    /\ calls' = calls + 1
    /\ UNCHANGED <<active, platform, now, previousCpus, prevNet, isTestingSpeed,
                   lastSpeedTestResult, ticks, probes, statusBar, notifications>>

DiskNext == DiskCall

DiskSpec == DiskInit /\ [][DiskNext]_vars

-----------------------------------------------------------------------------
(* Reference definitions the disk claims are stated with.                  *)

\* The positions of the line breaks of a text, and its n-th line.
Breaks(text) == {i \in 1..Len(text) : text[i] = "\n"}
NthBreak(text, n) ==
    IF n = 0 THEN 0
    ELSE IF Cardinality(Breaks(text)) < n THEN Len(text) + 1
    ELSE CHOOSE i \in Breaks(text) : Cardinality({j \in Breaks(text) : j < i}) = n - 1
HasLine(text, n) == Cardinality(Breaks(text)) >= n - 1 /\ NthBreak(text, n - 1) < Len(text) + 1
NthLine(text, n) == SubSeq(text, NthBreak(text, n - 1) + 1, NthBreak(text, n) - 1)

\* The whitespace-separated tokens of a line: its maximal runs of
\* characters that are not whitespace, in order.
TokenStarts(line) ==
    {i \in 1..Len(line) : ~IsSpace(line[i]) /\ (i = 1 \/ IsSpace(line[i - 1]))}
TokenEnd(line, i) ==
    CHOOSE j \in i..Len(line) :
        /\ \A k \in i..j : ~IsSpace(line[k])
        /\ (j = Len(line) \/ IsSpace(line[j + 1]))
NthToken(line, n) ==
    LET i == CHOOSE k \in TokenStarts(line) :
                 Cardinality({m \in TokenStarts(line) : m < k}) = n - 1
    IN  SubSeq(line, i, TokenEnd(line, i))

\* The df command succeeded and the second line of its output has at
\* least three tokens.
DfHasRow(exec) ==
    /\ ~exec.err
    /\ HasLine(exec.stdout, 2)
    /\ Cardinality(TokenStarts(NthLine(exec.stdout, 2))) >= 3

\* C10: on POSIX the result is "<used>/<total> <percent>" with tokens 1, 0
\* and 2 of the second output line verbatim when the command succeeded and
\* that line has at least three tokens, and "?" for every other outcome.
C10_DfResult ==
    (calls > 0 /\ platform # "win32") =>
        IF DfHasRow(arg)
        THEN LET row == NthLine(arg.stdout, 2)
             IN  ret = NthToken(row, 2) \o <<"/">> \o NthToken(row, 1)
                       \o <<" ">> \o NthToken(row, 3)
        ELSE ret = Unknown

\* The output of the claim's example gave "10G/20G 53%".
C10_Witness ==
    /\ calls > 0 /\ platform = "linux" /\ DfHasRow(arg)
    /\ ret = <<"1", "0", "G", "/", "2", "0", "G", " ", "5", "3", "%">>

\* A header alone, and a second line of two tokens, gave "?".
C10_WitnessUnknown ==
    /\ calls > 0 /\ platform = "linux" /\ ~arg.err /\ HasLine(arg.stdout, 2)
    /\ Cardinality(TokenStarts(NthLine(arg.stdout, 2))) = 2
    /\ ret = Unknown

\* A token that is a decimal numeral, and one that is a positive numeral.
IsNumeral(tok) == tok # <<>> /\ \A i \in 1..Len(tok) : IsDigit(tok[i])
IsPositiveNumeral(tok) == IsNumeral(tok) /\ \E i \in 1..Len(tok) : tok[i] # "0"

\* Line n of the wmic output is a row for drive C: with a numeral for the
\* free space and a positive numeral for the size.
IsNumericDriveRow(text, n) ==
    /\ HasLine(text, n)
    /\ LET line == NthLine(text, n)
           k    == Cardinality(TokenStarts(line))
       IN  /\ k >= 3
           /\ Includes(NthToken(line, k - 2), <<"C", ":">>)
           /\ IsNumeral(NthToken(line, k - 1))
           /\ IsPositiveNumeral(NthToken(line, k))

\* C11: on Windows the result is "?" whenever the command errors, no row
\* matches the system drive or the matching row cannot be parsed
\* (non-numeric or missing free-space or size, or a zero size): a result
\* other than "?" comes only from a matching row with numeric free and
\* size values.
C11_WmicUnknownUnlessNumeric ==
    (calls > 0 /\ platform = "win32" /\ ret # Unknown) =>
        /\ ~arg.err
        /\ \E n \in 2..(Len(arg.stdout) + 1) : IsNumericDriveRow(arg.stdout, n)

\* A row of drive C: whose free space and size are not numerals gave a
\* result made of NaN.
C11_WitnessNaN ==
    /\ calls > 0 /\ platform = "win32" /\ ~arg.err
    /\ ret = <<"N", "a", "N", "/", "N", "a", "N", "G", "B", " ", "N", "a", "N", "%">>

-----------------------------------------------------------------------------
(* NetSpec: the network tracker alone.  Each NetCall is one getTrafUsage   *)
(* with its readFile callback, which reads the clock, computes and stores  *)
(* in one event-loop turn, so that overlapping calls amount to a sequence  *)
(* of callbacks; the clock moves forward, or back when it is set.          *)

NetInit ==
    /\ active = FALSE
    /\ platform \in Platforms
    /\ now \in ClockValues
    /\ previousCpus = <<>>
    /\ prevNet = [bytes |-> 0, time |-> 0]
    /\ isTestingSpeed = FALSE
    /\ lastSpeedTestResult = "N/A"
    /\ ticks = NoTicks
    /\ probes = NoProbes
    /\ statusBar = NoStatusBar
    /\ notifications = <<>>
    /\ calls = 0
    /\ arg = <<>>
    /\ ret = "none"

NetUnsupported ==
    /\ calls < MaxCalls
    /\ platform # "linux"
    /\ ret' = "N/A"
    /\ arg' = <<>>
    /\ calls' = calls + 1
    /\ UNCHANGED <<active, platform, now, previousCpus, prevNet, isTestingSpeed,
                   lastSpeedTestResult, ticks, probes, statusBar, notifications>>

NetCall ==
    /\ calls < MaxCalls
    /\ platform = "linux"
    /\ \E read \in ReadResults :
          LET r == TrafCallback(prevNet, now, read)
          IN  /\ prevNet' = r.prev
              /\ ret' = r.out
              /\ arg' = [read |-> read, prev |-> prevNet, at |-> now]
    /\ calls' = calls + 1
    /\ UNCHANGED <<active, platform, now, previousCpus, isTestingSpeed, lastSpeedTestResult,
                   ticks, probes, statusBar, notifications>>

ClockAdvance ==
    /\ \E t \in ClockValues : t > now /\ now' = t
    /\ UNCHANGED <<active, platform, previousCpus, prevNet, isTestingSpeed, lastSpeedTestResult,
                   ticks, probes, statusBar, notifications, calls, arg, ret>>

ClockSetBack ==
    /\ \E t \in ClockValues : t < now /\ now' = t
    /\ UNCHANGED <<active, platform, previousCpus, prevNet, isTestingSpeed, lastSpeedTestResult,
                   ticks, probes, statusBar, notifications, calls, arg, ret>>

NetNext == NetUnsupported \/ NetCall \/ ClockAdvance \/ ClockSetBack

NetSpec == NetInit /\ [][NetNext]_vars

-----------------------------------------------------------------------------
(* Reference definitions the network claims are stated with.               *)

\* The aggregate byte counter of a file: every row but the loopback one.
TotalBytes(file) ==
    SumSeq([i \in 1..Len(file) |->
              IF file[i].name = "lo" THEN 0 ELSE file[i].rx + file[i].tx])

\* The last call sampled the counters (the read succeeded).
NetSampled == platform = "linux" /\ calls > 0 /\ ~arg.read.err

\* out shows a rate that is not negative.
IsNonNegativeRate(out) ==
    \E k \in 0..1000 : out = ToString(k) \o "Kbps" \/ out = TenthsString(k) \o "Mbps"

\* out shows bytesDiff bytes in dtMs milliseconds by the formatting rule:
\* mbps = bytesDiff / (dtMs / 1000) * 8 / 1,000,000, as round(mbps * 1000)
\* Kbps when mbps < 1 and as mbps with one decimal otherwise.
IsRateOf(out, bytesDiff, dtMs) ==
    IF 8 * bytesDiff < 1000 * dtMs
    THEN \E k \in 0..1000 :
            /\ out = ToString(k) \o "Kbps"
            /\ 2 * Abs(k * dtMs - 8 * bytesDiff) <= dtMs
    ELSE \E k \in 10..1000 :
            /\ out = TenthsString(k) \o "Mbps"
            /\ 2 * Abs(k * 100 * dtMs - 8 * bytesDiff) <= 100 * dtMs

\* C8: the rate is 0 on the first sample, when the elapsed time is <= 0
\* and when the aggregate counter decreased, and no sample shows a
\* negative rate.
C8_ZeroRateAndNeverNegative ==
    NetSampled =>
        /\ IsNonNegativeRate(ret)
        /\ (\/ arg.prev.time = 0
            \/ arg.at - arg.prev.time <= 0
            \/ TotalBytes(arg.read.data) < arg.prev.bytes) => ret = "0Kbps"

\* A second sample whose counter is lower than the first one's, taken
\* later, reported rate 0.
C8_Witness ==
    /\ NetSampled /\ calls = 2
    /\ arg.prev.time > 0 /\ arg.at > arg.prev.time
    /\ TotalBytes(arg.read.data) < arg.prev.bytes
    /\ ret = "0Kbps"

\* C16 as stated: after every getTrafUsage call on a supported platform,
\* also one whose read fails, prevNet holds that call's total and timestamp.
C16_PrevNetAlwaysUpdated ==
    (platform = "linux" /\ calls > 0) =>
        /\ prevNet.time = arg.at
        /\ ~arg.read.err => prevNet.bytes = TotalBytes(arg.read.data)

\* C16 amended: after every call whose read succeeded prevNet holds that
\* call's total and timestamp, whatever rate the call reported; a call
\* whose read failed leaves prevNet as it was.
C16_PrevNetAfterRead ==
    (platform = "linux" /\ calls > 0) =>
        IF arg.read.err
        THEN prevNet = arg.prev
        ELSE prevNet = [bytes |-> TotalBytes(arg.read.data), time |-> arg.at]

\* A second sample that reported rate 0 for a counter that went down was
\* stored.
C16_Witness ==
    /\ NetSampled /\ calls = 2 /\ ret = "0Kbps"
    /\ arg.prev.time > 0 /\ TotalBytes(arg.read.data) < arg.prev.bytes
    /\ prevNet = [bytes |-> TotalBytes(arg.read.data), time |-> arg.at]
    /\ prevNet # arg.prev

\* A read that failed after a sample left the stored sample, at a later
\* time.
C16_WitnessReadFailed ==
    /\ platform = "linux" /\ calls = 2 /\ arg.read.err
    /\ arg.prev.time > 0 /\ arg.at > arg.prev.time
    /\ prevNet = arg.prev

\* C9: with a positive time difference and a non-negative byte difference
\* the display follows the formatting rule; 1,000,000 then 3,000,000 bytes
\* 1000 ms apart show "16.0Mbps" and 1000 then 1500 bytes 1000 ms apart
\* show "4Kbps".
C9_RateFormula ==
    (NetSampled /\ arg.prev.time > 0 /\ arg.at - arg.prev.time > 0
                /\ TotalBytes(arg.read.data) >= arg.prev.bytes) =>
        LET diff == TotalBytes(arg.read.data) - arg.prev.bytes
            dt   == arg.at - arg.prev.time
        IN  /\ IsRateOf(ret, diff, dt)
            /\ (arg.prev.bytes = 1000000 /\ diff = 2000000 /\ dt = 1000) => ret = "16.0Mbps"
            /\ (arg.prev.bytes = 1000 /\ diff = 500 /\ dt = 1000) => ret = "4Kbps"

\* Both examples of the claim happened.
C9_Witness ==
    /\ NetSampled /\ arg.prev.time > 0 /\ arg.at - arg.prev.time = 1000
    /\ arg.prev.bytes = 1000000 /\ TotalBytes(arg.read.data) = 3000000
    /\ ret = "16.0Mbps"

C9_WitnessKbps ==
    /\ NetSampled /\ arg.prev.time > 0 /\ arg.at - arg.prev.time = 1000
    /\ arg.prev.bytes = 1000 /\ TotalBytes(arg.read.data) = 1500
    /\ ret = "4Kbps"

-----------------------------------------------------------------------------
(* Reference definitions the CPU claims are stated with.                   *)

\* The deltas between two samples of the same number of cores.
IdleDelta(prev, cur) == SumSeq([i \in 1..Len(cur) |-> cur[i].idle - prev[i].idle])
TotalDelta(prev, cur) ==
    SumSeq([i \in 1..Len(cur) |->
              (cur[i].user + cur[i].nice + cur[i].sys + cur[i].idle + cur[i].irq)
            - (prev[i].user + prev[i].nice + prev[i].sys + prev[i].idle + prev[i].irq)])

\* out is a percentage within [0, 100] with one decimal, the nearest to
\* (1 - i/t) * 100, for t > 0.
IsUsagePercent(out, i, t) ==
    \E k \in 0..1000 :
        /\ out = TenthsString(k)
        /\ 2 * Abs(k * t - 1000 * (t - i)) <= t

\* out is (1 - i/t) * 100 to one decimal as toFixed prints it, for t # 0,
\* whatever its sign and its size.
MaxTenths == 1000 * (2 * MaxCores * MaxCpuTime + 1)
IsUsageOf(out, i, t) ==
    LET neg == (t - i # 0) /\ ((t - i < 0) # (t < 0))
    IN  \E k \in 0..MaxTenths :
            /\ out = (IF neg THEN "-" ELSE "") \o TenthsString(k)
            /\ 2 * Abs(k * Abs(t) - 1000 * Abs(t - i)) <= Abs(t)

\* A step that is a call of calculateCpuUsage which returned.
CpuReturned == calls' = calls + 1 /\ ret' # "TypeError"

C7_UsageInRangeAndRounded ==
    [][CpuReturned =>
          LET i == IdleDelta(previousCpus, arg')
              t == TotalDelta(previousCpus, arg')
          IN  t > 0 => IsUsagePercent(ret', i, t)]_vars

\* C7 on samples whose counters did not decrease: the same statement, which
\* the code satisfies.
CountersMonotone(prev, cur) ==
    \A i \in 1..Len(cur) :
        /\ cur[i].user >= prev[i].user /\ cur[i].nice >= prev[i].nice
        /\ cur[i].sys >= prev[i].sys /\ cur[i].idle >= prev[i].idle
        /\ cur[i].irq >= prev[i].irq

C7_MonotoneUsageInRange ==
    [][(CpuReturned /\ CountersMonotone(previousCpus, arg')) =>
          LET i == IdleDelta(previousCpus, arg')
              t == TotalDelta(previousCpus, arg')
          IN  t > 0 => IsUsagePercent(ret', i, t)]_vars

\* A step that is a call of calculateCpuUsage, and the cores that the
\* previous sample and the sample of the call have in common.
CpuCalled == calls' = calls + 1
Shorter(prev, cur) == IF Len(prev) < Len(cur) THEN Len(prev) ELSE Len(cur)
CommonCores(sample, prev, cur) == SubSeq(sample, 1, Shorter(prev, cur))

\* C13: when the number of cores differs between the previous and the
\* current sample, in either direction, calculateCpuUsage returns the
\* usage over the cores both samples have, without throwing, and stores
\* the current sample as the previous one.
C13_CoreCountChangeHandled ==
    [][(CpuCalled /\ Len(arg') # Len(previousCpus)) =>
          LET p == CommonCores(previousCpus, previousCpus, arg')
              c == CommonCores(arg', previousCpus, arg')
              i == IdleDelta(p, c)
              t == TotalDelta(p, c)
          IN  /\ ret' # "TypeError"
              /\ previousCpus' = arg'
              /\ t = 0 => ret' = "0.0"
              /\ t # 0 => IsUsageOf(ret', i, t)]_vars

\* A call with more cores than the previous sample threw, and the
\* previous sample stayed.
C13_WitnessThrew ==
    /\ calls > 0 /\ ret = "TypeError"
    /\ Len(arg) > Len(previousCpus) /\ previousCpus # arg

\* C14: when a CPU time counter decreases between two consecutive samples
\* the reported usage is the placeholder "0.0", never a value computed
\* from negative deltas.
C14_CounterResetIsNoData ==
    [][(CpuReturned /\ ~CountersMonotone(previousCpus, arg')) => ret' = "0.0"]_vars

\* After a counter went down the call returned a negative percentage.
C14_WitnessNegative ==
    /\ calls > 0 /\ Len(arg) = MaxCores /\ previousCpus = arg
    /\ ret = "-100.0"

\* C15: when the summed totalDelta between the two samples is 0 the call
\* returns "0.0", and after every call previousCpus is the sample that was
\* passed to it.
C15_ZeroDeltaAndPrevReplaced ==
    [][CpuCalled =>
          /\ previousCpus' = arg'
          /\ (Len(arg') <= Len(previousCpus) /\ TotalDelta(previousCpus, arg') = 0)
                 => ret' = "0.0"]_vars

\* C15 for the calls that return: the same statement, which the code
\* satisfies.
C15_ReturnedCallReplacesPrev ==
    [][CpuReturned =>
          /\ previousCpus' = arg'
          /\ TotalDelta(previousCpus, arg') = 0 => ret' = "0.0"]_vars

\* The second call was given more cores than the first and left the
\* sample of the first call stored.
C15_WitnessNotReplaced ==
    /\ calls = MaxCalls /\ ret = "TypeError"
    /\ previousCpus # arg /\ previousCpus # <<>>

-----------------------------------------------------------------------------
(* The tick: updateStatusBarItem with getResources.                        *)

\* Number.prototype.toFixed(1) of num/den >= 0, as characters.
Fixed1Chars(num, den) ==
    LET t == RoundScaled(10, num, den)
    IN  NatChars(t \div 10) \o <<".">> \o NatChars(t % 10)

\* os.totalmem() and os.freemem(), in KiB (both are whole pages).
MemSamples == {[total |-> 16777216, free |-> 4194304]}

\* The ram string of getResources (extension.ts:111-125).
RamString(mem) ==
    LET used == mem.total - mem.free
    IN  Fixed1Chars(used, 1024 * 1024) \o <<"/">> \o Fixed1Chars(mem.total, 1024 * 1024)
        \o <<"G", "B", " ">> \o Fixed1Chars(100 * used, mem.total) \o <<"%">>

Last(s) == s[Len(s)]

\* resources.ram.split(' ').pop() || resources.ram (extension.ts:56).
RamPercent(ram) ==
    LET last == Last(Split(ram, " ")) IN IF last = <<>> THEN ram ELSE last

\* extension.ts:58-59.
DiskPercent(disk) ==
    LET diskParts == Split(disk, " ")
    IN  IF Len(diskParts) > 1 THEN Last(diskParts) ELSE disk

\* A variant of line 53 that shows the last result while a test runs.
BandwidthTextLastResult(testing, last) == last

\* const bwStr = isTestingSpeed ? 'Testing...' : lastSpeedTestResult.
BandwidthText(testing, last) == IF testing THEN "Testing..." ELSE last

Core(u, i) == [user |-> u, nice |-> 0, sys |-> 0, idle |-> i, irq |-> 0]

\* Outputs of the disk commands that the system specifications draw from.
DfGood == <<"S", "i", "z", "e", " ", "U", "s", "e", "d", " ", "U", "s", "e", "%">> \o <<"\n">>
          \o <<"2", "0", "G", " ", "1", "0", "G", " ", "5", "3", "%">> \o <<"\n">>
DfHeaderOnly == <<"S", "i", "z", "e", " ", "U", "s", "e", "d", " ", "U", "s", "e", "%">> \o <<"\n">>
WmicGood == WmicHeader \o WmicEol
            \o <<"C", ":", " ", " ", "5", "0", "0", "0", "0", "0", "0", "0", "0", " ", " ", "2", "0", "0", "0", "0", "0", "0", "0", "0", "0">>
            \o WmicEol
WmicOtherDrive == WmicHeader \o WmicEol
                  \o <<"D", ":", " ", " ", "1", "0", "0", "0", "0", "0", "0", "0", "0", " ", " ", "4", "0", "0", "0", "0", "0", "0", "0", "0">>
                  \o WmicEol

NetFileA == <<Iface("lo", 700, 700), Iface("eth0", 600, 400)>>
NetFileB == <<Iface("lo", 900, 900), Iface("eth0", 1000, 500)>>

\* The values the environment hands the handlers, per specification: the
\* samples of os.cpus(), the memory readings, the results of the disk
\* command by platform and the results of reading /proc/net/dev.
SystemInputs ==
    [cpus  |-> {<<Core(0, 0)>>},
     mems  |-> MemSamples,
     execs |-> [plat \in Platforms |->
                  IF plat = "win32" THEN {ExecOk(WmicGood)} ELSE {ExecOk(DfGood)}],
     reads |-> {ReadOk(NetFileA), ReadOk(NetFileB)}]

TickInputs ==
    [cpus  |-> {<<Core(0, 0)>>, <<Core(0, 0), Core(0, 1)>>},
     mems  |-> MemSamples,
     execs |-> [plat \in Platforms |->
                  IF plat = "win32"
                  THEN {ExecErr, ExecOk(WmicGood), ExecOk(WmicOtherDrive)}
                  ELSE {ExecErr, ExecOk(DfGood), ExecOk(DfHeaderOnly)}],
     reads |-> {ReadErr, ReadOk(NetFileA), ReadOk(NetFileB)}]

\* getDiskUsage on each platform for each result of its command.
DiskResult ==
    [plat \in Platforms |->
       [exec \in SystemInputs.execs[plat] \cup TickInputs.execs[plat] |->
          DiskCallback(plat, exec)]]

\* The synchronous part of updateStatusBarItem, up to the await of
\* getDiskUsage (extension.ts:41-52, 100-120): calculateCpuUsage runs, and
\* when it throws the promise of updateStatusBarItem rejects; otherwise the
\* tick waits for the callback of its disk command.
BeginTick(cpus, mem) ==
    LET r == calculateCpuUsage(previousCpus, cpus)
    IN  /\ previousCpus' = r.prev
        /\ IF r.threw
           THEN /\ ticks' = ticks
                /\ ret' = "rejected"
           ELSE /\ ticks' = Append(ticks, [pc |-> "disk", cpu |-> r.out,
                                           ram |-> RamString(mem), exec |-> ExecErr,
                                           disk |-> <<>>, stale |-> FALSE])
                /\ ret' = ret
        /\ arg' = arg

\* A variant of the end of a tick that clears the flag of the speed test
\* once the status bar is written.
FinishTickClearingFlag(i, exec, disk, traf, read) ==
    LET t == ticks[i]
    IN  /\ statusBar' = [written |-> TRUE, cpu |-> t.cpu, ram |-> t.ram,
                         ramPercent |-> RamPercent(t.ram), disk |-> disk,
                         diskPercent |-> DiskPercent(disk), traf |-> traf,
                         bw |-> BandwidthText(isTestingSpeed, lastSpeedTestResult)]
        /\ ticks' = [j \in 1..(Len(ticks) - 1) |->
                       IF j < i THEN [ticks[j] EXCEPT !.stale = TRUE] ELSE ticks[j + 1]]
        /\ ret' = "written"
        /\ arg' = [exec |-> exec, read |-> read, late |-> t.stale]
        /\ isTestingSpeed' = FALSE
        /\ UNCHANGED <<lastSpeedTestResult, probes>>

\* The end of updateStatusBarItem for ticks[i] (extension.ts:53-70): the
\* status bar is written with the values of the tick and the bandwidth text
\* of this moment, which is read and not written.  The ticks started
\* before it and still waiting are now older than what the status bar
\* shows.
FinishTick(i, exec, disk, traf, read) ==
    LET t == ticks[i]
    IN  /\ statusBar' = [written |-> TRUE, cpu |-> t.cpu, ram |-> t.ram,
                         ramPercent |-> RamPercent(t.ram), disk |-> disk,
                         diskPercent |-> DiskPercent(disk), traf |-> traf,
                         bw |-> BandwidthText(isTestingSpeed, lastSpeedTestResult)]
        /\ ticks' = [j \in 1..(Len(ticks) - 1) |->
                       IF j < i THEN [ticks[j] EXCEPT !.stale = TRUE] ELSE ticks[j + 1]]
        /\ ret' = "written"
        /\ arg' = [exec |-> exec, read |-> read, late |-> t.stale]
        /\ UNCHANGED <<isTestingSpeed, lastSpeedTestResult, probes>>

-----------------------------------------------------------------------------
(* Bandwidth probe: runSpeedTest.                                          *)

\* ?bytes=10000000 of the download URL.
PayloadBytes == 10000000

\* A variant without the single-flight guard.
SkipProbeNever(testing) == FALSE

\* if (isTestingSpeed) { return; }
SkipProbe(testing) == testing

\* A variant that shows 0 for a download that took no time.
ProbeResultZero(bytes, startTime, endTime) ==
    IF endTime = startTime THEN "0.0Mbps"
    ELSE ToFixed1(8 * bytes, 1000 * (endTime - startTime)) \o "Mbps"

\* extension.ts:317-322: durationSec = (endTime - startTime) / 1000,
\* mbps = downloadedBytes * 8 / durationSec / 1,000,000, one decimal.
ProbeResult(bytes, startTime, endTime) ==
    IF endTime = startTime
    THEN (IF bytes = 0 THEN "NaN" ELSE "Infinity") \o "Mbps"
    ELSE ToFixed1(8 * bytes, 1000 * (endTime - startTime)) \o "Mbps"

RemoveAt(s, i) == [j \in 1..(Len(s) - 1) |-> IF j < i THEN s[j] ELSE s[j + 1]]

\* A variant of the failure path that leaves the flag set.
FlagAfterFailureStuck(failed) == failed

\* finally { isTestingSpeed = false; ... }
FlagAfterFailure(failed) == FALSE

\* The continuation of runSpeedTest once the promise of probes[p] settles
\* (extension.ts:317-331), with the tick its finally block starts.
Settle(p, failed, cpus, mem) ==
    LET result == IF failed THEN "Error"
                  ELSE ProbeResult(probes[p].bytes, probes[p].startTime, now)
    IN  /\ lastSpeedTestResult' = result
        /\ notifications' = Append(notifications,
                                   IF failed THEN "error" ELSE "info")
        /\ isTestingSpeed' = FlagAfterFailure(failed)
        /\ probes' = RemoveAt(probes, p)
        /\ BeginTick(cpus, mem)

-----------------------------------------------------------------------------
(* Spec: the extension on the event loop.  Init is the loaded module       *)
(* (extension.ts:8-10, 131, 216) before activate().                        *)

InitWith(In) ==
    /\ active = FALSE
    /\ platform \in Platforms
    /\ now = 1000
    /\ previousCpus \in In.cpus
    /\ prevNet = [bytes |-> 0, time |-> 0]
    /\ isTestingSpeed = FALSE
    /\ lastSpeedTestResult = "N/A"
    /\ ticks = NoTicks
    /\ probes = NoProbes
    /\ statusBar = NoStatusBar
    /\ notifications = <<>>
    /\ calls = 0
    /\ arg = <<>>
    /\ ret = "none"

\* The ticks that wait for a command that hangs.
Stalled == {i \in 1..Len(ticks) : ticks[i].pc = "stalled"}

\* The model starts a tick only while fewer than MaxTicks are under way.
Room == Len(ticks) - Cardinality(Stalled) < MaxTicks

\* activate(): the first tick, and the interval timer.
Activate(In) ==
    /\ ~active
    /\ active' = TRUE
    /\ \E cpus \in In.cpus, mem \in In.mems : BeginTick(cpus, mem)
    /\ UNCHANGED <<platform, now, prevNet, isTestingSpeed, lastSpeedTestResult,
                   probes, statusBar, notifications, calls>>

\* setInterval(updateStatusBarItem, interval) fires.
TimerTick(In) ==
    /\ active /\ Room
    /\ \E cpus \in In.cpus, mem \in In.mems : BeginTick(cpus, mem)
    /\ UNCHANGED <<active, platform, now, prevNet, isTestingSpeed, lastSpeedTestResult,
                   probes, statusBar, notifications, calls>>

\* The command os-monitor.update.
UpdateCommand(In) ==
    /\ active /\ Room
    /\ \E cpus \in In.cpus, mem \in In.mems : BeginTick(cpus, mem)
    /\ UNCHANGED <<active, platform, now, prevNet, isTestingSpeed, lastSpeedTestResult,
                   probes, statusBar, notifications, calls>>

\* The callback of the disk command of ticks[i]; off Linux getTrafUsage
\* returns 'N/A' at once and the tick ends in the same turn.
DiskDone(i, In) ==
    /\ ticks[i].pc = "disk"
    /\ \E exec \in In.execs[platform] :
          LET disk == DiskResult[platform][exec]
          IN  IF platform = "linux"
              THEN /\ ticks' = [ticks EXCEPT ![i] = [@ EXCEPT !.pc = "traf", !.exec = exec,
                                                               !.disk = disk]]
                   /\ UNCHANGED <<statusBar, arg, ret, isTestingSpeed,
                                  lastSpeedTestResult, probes>>
              ELSE FinishTick(i, exec, disk, "N/A", ReadErr)
    /\ UNCHANGED <<active, platform, now, previousCpus, prevNet, notifications, calls>>

\* The disk command of ticks[i] hangs: its callback will never run.
\* cp.exec is given no timeout.
DiskStall(i) ==
    /\ ticks[i].pc = "disk"
    /\ Cardinality(Stalled) < MaxStalled
    /\ ticks' = [ticks EXCEPT ![i].pc = "stalled"]
    /\ UNCHANGED <<active, platform, now, previousCpus, prevNet, isTestingSpeed,
                   lastSpeedTestResult, probes, statusBar, notifications, calls, arg, ret>>

\* The readFile callback of ticks[i], and the end of the tick.
TrafDone(i, In) ==
    /\ ticks[i].pc = "traf"
    /\ \E read \in In.reads :
          LET r == TrafCallback(prevNet, now, read)
          IN  /\ prevNet' = r.prev
              /\ FinishTick(i, ticks[i].exec, ticks[i].disk, r.out, read)
    /\ UNCHANGED <<active, platform, now, previousCpus, notifications, calls>>

\* The command os-monitor.checkSpeed while a test runs: runSpeedTest
\* returns at once.
RunSpeedTestSkipped ==
    /\ active
    /\ SkipProbe(isTestingSpeed)
    /\ ret' = "skipped"
    /\ UNCHANGED <<active, platform, now, previousCpus, prevNet, isTestingSpeed,
                   lastSpeedTestResult, ticks, probes, statusBar, notifications,
                   calls, arg>>

\* The command os-monitor.checkSpeed otherwise (extension.ts:283-315): the
\* flag is set, a tick starts and the request is issued, in one turn.
RunSpeedTest(In) ==
    /\ active /\ calls < MaxCalls /\ Room
    /\ ~SkipProbe(isTestingSpeed)
    /\ calls' = calls + 1
    /\ isTestingSpeed' = TRUE
    /\ lastSpeedTestResult' = "Testing..."
    /\ \E cpus \in In.cpus, mem \in In.mems : BeginTick(cpus, mem)
    /\ probes' = Append(probes, [pc |-> "wait", startTime |-> now, bytes |-> 0])
    /\ UNCHANGED <<active, platform, now, prevNet, statusBar, notifications>>

\* The response arrives with status 200: the handlers of the body are set.
HttpResponseOk(p) ==
    /\ probes[p].pc = "wait"
    /\ probes' = [probes EXCEPT ![p].pc = "stream"]
    /\ UNCHANGED <<active, platform, now, previousCpus, prevNet, isTestingSpeed,
                   lastSpeedTestResult, ticks, statusBar, notifications, calls, arg, ret>>

\* The response arrives with another status: the promise is rejected.
HttpResponseBad(p, In) ==
    /\ probes[p].pc = "wait" /\ Room
    /\ \E cpus \in In.cpus, mem \in In.mems : Settle(p, TRUE, cpus, mem)
    /\ UNCHANGED <<active, platform, now, prevNet, statusBar, calls>>

\* A chunk of the body arrives.
HttpData(p) ==
    /\ probes[p].pc = "stream"
    /\ probes[p].bytes < PayloadBytes
    /\ probes' = [probes EXCEPT ![p].bytes = PayloadBytes]
    /\ UNCHANGED <<active, platform, now, previousCpus, prevNet, isTestingSpeed,
                   lastSpeedTestResult, ticks, statusBar, notifications, calls, arg, ret>>

\* The body ends: the promise is resolved.
HttpEnd(p, In) ==
    /\ probes[p].pc = "stream" /\ Room
    /\ \E cpus \in In.cpus, mem \in In.mems : Settle(p, FALSE, cpus, mem)
    /\ UNCHANGED <<active, platform, now, prevNet, statusBar, calls>>

\* The request or the response emits 'error': the promise is rejected.
HttpError(p, In) ==
    /\ probes[p].pc \in {"wait", "stream"} /\ Room
    /\ \E cpus \in In.cpus, mem \in In.mems : Settle(p, TRUE, cpus, mem)
    /\ UNCHANGED <<active, platform, now, prevNet, statusBar, calls>>

\* The peer goes silent: no event of this request will arrive any more.
\* https.get is given no timeout, and none is set on the request.
HttpStall(p) ==
    /\ probes[p].pc \in {"wait", "stream"}
    /\ probes' = [probes EXCEPT ![p].pc = "stalled"]
    /\ UNCHANGED <<active, platform, now, previousCpus, prevNet, isTestingSpeed,
                   lastSpeedTestResult, ticks, statusBar, notifications, calls, arg, ret>>

Init == InitWith(SystemInputs)

Next ==
    \/ Activate(SystemInputs)
    \/ TimerTick(SystemInputs)
    \/ UpdateCommand(SystemInputs)
    \/ \E i \in 1..Len(ticks) : DiskDone(i, SystemInputs)
    \/ \E i \in 1..Len(ticks) : TrafDone(i, SystemInputs)
    \/ RunSpeedTestSkipped
    \/ RunSpeedTest(SystemInputs)
    \/ \E p \in 1..Len(probes) : HttpResponseOk(p)
    \/ \E p \in 1..Len(probes) : HttpResponseBad(p, SystemInputs)
    \/ \E p \in 1..Len(probes) : HttpData(p)
    \/ \E p \in 1..Len(probes) : HttpEnd(p, SystemInputs)
    \/ \E p \in 1..Len(probes) : HttpError(p, SystemInputs)
    \/ \E p \in 1..Len(probes) : HttpStall(p)
    \/ ClockAdvance

Spec == Init /\ [][Next]_vars

\* FairSpec: every event that can arrive does arrive.  A command or a
\* request that has not stalled calls back, and the continuation that
\* settles a test runs when it is enabled often enough; the interval timer
\* of activate() keeps firing.  Nothing obliges the user or the clock to
\* act, and a stalled request stays silent.
Fairness ==
    /\ WF_vars(TimerTick(SystemInputs))
    /\ WF_vars(\E i \in 1..Len(ticks) : DiskDone(i, SystemInputs))
    /\ WF_vars(\E i \in 1..Len(ticks) : TrafDone(i, SystemInputs))
    /\ WF_vars(\E p \in 1..Len(probes) : HttpResponseOk(p))
    /\ SF_vars(\E p \in 1..Len(probes) : HttpEnd(p, SystemInputs))

FairSpec == Spec /\ Fairness

-----------------------------------------------------------------------------
(* TickSpec: the ticks alone, with more of the values the environment can  *)
(* hand them; nobody runs the speed test.                                  *)

TickInit == InitWith(TickInputs)

TickNext ==
    \/ Activate(TickInputs)
    \/ TimerTick(TickInputs)
    \/ UpdateCommand(TickInputs)
    \/ \E i \in 1..Len(ticks) : DiskDone(i, TickInputs)
    \/ \E i \in 1..Len(ticks) : DiskStall(i)
    \/ \E i \in 1..Len(ticks) : TrafDone(i, TickInputs)
    \/ ClockAdvance

TickSpec == TickInit /\ [][TickNext]_vars

\* FairTickSpec: the interval timer keeps firing, and the callback of
\* every command and of every read that has not hung is delivered, to
\* each waiting tick.  A command that hangs stays silent.
TickFairness ==
    /\ WF_vars(TimerTick(TickInputs))
    /\ \A i \in 1..(MaxTicks + MaxStalled) :
          /\ WF_vars(i <= Len(ticks) /\ DiskDone(i, TickInputs))
          /\ WF_vars(i <= Len(ticks) /\ TrafDone(i, TickInputs))

FairTickSpec == TickSpec /\ TickFairness

-----------------------------------------------------------------------------
(* Statements about the bandwidth probe.                                   *)

\* The requests that are outstanding: issued and not yet settled.
Outstanding == Len(probes)

\* A step that enters Running.
EntersRunning == ~isTestingSpeed /\ isTestingSpeed'

\* A step in which a request fails and runSpeedTest handles the failure.
ProbeFails == notifications' = Append(notifications, "error")

\* A step that is a call of runSpeedTest which got past its guard.
ProbeStarts == calls' = calls + 1

\* A step that is a call of runSpeedTest which returned at its guard.
ProbeSkipped == ret # "skipped" /\ ret' = "skipped"

\* C1: a runSpeedTest call made while a test is Running changes nothing, so
\* at most one HTTP request is outstanding at any time, no request is issued
\* while Running, and a step issues a request exactly when it enters
\* Running, and then exactly one.
C1_SingleFlight ==
    [][/\ Outstanding <= 1 /\ Len(probes') <= 1
       /\ isTestingSpeed => Len(probes') <= Outstanding
       /\ EntersRunning <=> Len(probes') = Outstanding + 1
       /\ ProbeSkipped =>
              /\ isTestingSpeed
              /\ UNCHANGED <<isTestingSpeed, lastSpeedTestResult, probes, ticks,
                             statusBar, notifications, calls>>]_vars

\* A call of runSpeedTest made while the one request is outstanding has
\* returned at the guard.
C1_Witness ==
    /\ ret = "skipped" /\ isTestingSpeed
    /\ calls = 1 /\ Outstanding = 1

\* C2: when the request of a test fails (another status than 200, a
\* connection error or a stream error) the bandwidth display is "Error" and
\* the test is no longer Running; as long as the display is "Error" the
\* guard of runSpeedTest lets a call through, and the call that follows
\* enters Running again and issues a new request.
C2_FailureReleases ==
    [][/\ ProbeFails =>
              /\ lastSpeedTestResult' = "Error"
              /\ ~isTestingSpeed'
              /\ Len(probes') = Outstanding - 1
       /\ lastSpeedTestResult = "Error" => ~SkipProbe(isTestingSpeed)
       /\ (lastSpeedTestResult = "Error" /\ ProbeStarts) =>
              /\ isTestingSpeed'
              /\ lastSpeedTestResult' = "Testing..."
              /\ Len(probes') = Outstanding + 1]_vars

\* A test failed, and the call after it is Running with a new request.
C2_Witness ==
    /\ notifications = <<"error">>
    /\ calls = 2 /\ isTestingSpeed /\ Outstanding = 1
    /\ lastSpeedTestResult = "Testing..."

\* The display "Error" with the flag released, after a response with
\* another status than 200 or an error before any byte of the body.
C2_WitnessFailed ==
    /\ notifications = <<"error">>
    /\ calls = 1 /\ ~isTestingSpeed /\ Outstanding = 0
    /\ lastSpeedTestResult = "Error"

\* C3: every test that enters Running eventually leaves Running, also when
\* the request never delivers a response, an 'end' or an 'error' event.
C3_RunningEventuallyEnds == isTestingSpeed ~> ~isTestingSpeed

\* The state C3 says cannot last: Running, with a request that went silent.
C3_StalledWhileRunning ==
    isTestingSpeed /\ \E p \in 1..Len(probes) : probes[p].pc = "stalled"

\* A step in which runSpeedTest handles the end of its request.
ProbeSettles == Len(notifications') = Len(notifications) + 1

\* C18: a tick only reads the state of the bandwidth probe.  A step that is
\* not a step of runSpeedTest (its start, or the handling of the end of its
\* request) leaves isTestingSpeed and lastSpeedTestResult as they are and
\* issues no request, and no tick waits for a running test: the callback
\* a tick waits for can run while isTestingSpeed is true.
C18_TickOnlyReadsProbe ==
    /\ [](\A i \in 1..Len(ticks) :
            /\ ticks[i].pc = "disk" => ENABLED DiskDone(i, SystemInputs)
            /\ ticks[i].pc = "traf" => ENABLED TrafDone(i, SystemInputs))
    /\ [][(~ProbeStarts /\ ~ProbeSettles) =>
             /\ UNCHANGED <<isTestingSpeed, lastSpeedTestResult>>
             /\ Len(probes') = Len(probes)]_vars

\* A tick wrote the status bar while a test was running, and the test is
\* still running with its one request.
C18_Witness ==
    /\ ret = "written" /\ statusBar.bw = "Testing..."
    /\ isTestingSpeed /\ lastSpeedTestResult = "Testing..." /\ Outstanding = 1

\* A step in which a tick writes the status bar and ends.
TickWrites == Len(ticks') = Len(ticks) - 1

\* What a test that completed can leave as its result.
CompletedDisplays ==
    {ProbeResult(bytes, startTime, endTime) :
        bytes \in {0, PayloadBytes}, startTime \in ClockValues, endTime \in ClockValues}

\* C19: between event-loop turns isTestingSpeed is true exactly when
\* lastSpeedTestResult is "Testing..."; so every write of the status bar
\* shows "Testing..." exactly when a test is running at that moment, and
\* otherwise "N/A", the result of a completed test or "Error".
C19_FlagMatchesDisplay ==
    /\ [](isTestingSpeed <=> lastSpeedTestResult = "Testing...")
    /\ [][TickWrites =>
             /\ statusBar'.bw = "Testing..." <=> isTestingSpeed
             /\ ~isTestingSpeed =>
                    /\ statusBar'.bw = lastSpeedTestResult
                    /\ statusBar'.bw \in {"N/A", "Error"} \cup CompletedDisplays]_vars

\* A tick wrote the rate of a completed test when no test was running.
C19_Witness ==
    /\ ret = "written" /\ ~isTestingSpeed /\ notifications = <<"info">>
    /\ statusBar.bw = lastSpeedTestResult /\ statusBar.bw = "80.0Mbps"

\* A tick wrote "Error" after a test failed.
C19_WitnessError ==
    /\ ret = "written" /\ ~isTestingSpeed /\ notifications = <<"error">>
    /\ statusBar.bw = "Error"

-----------------------------------------------------------------------------
(* Statements about the ticks.                                             *)

\* What the last tick to write the status bar shows, against what it was
\* given: the unknown marker for a disk command that failed, '0Kbps' for a
\* counter file that could not be read, and the other fields as computed.
DegradedMarkers ==
    ret = "written" =>
        /\ arg.exec.err => statusBar.disk = Unknown /\ statusBar.diskPercent = Unknown
        /\ ~arg.exec.err => statusBar.disk = DiskCallback(platform, arg.exec)
        /\ (platform = "linux" /\ arg.read.err) => statusBar.traf = "0Kbps"
        /\ platform # "linux" => statusBar.traf = "N/A"
        /\ \E mem \in MemSamples : statusBar.ram = RamString(mem)
        /\ statusBar.cpu = "0.0"

\* C4: a tick never throws or rejects under a single failing reading (disk
\* command error or unparseable output, unreadable counter file, irregular
\* CPU sample): the failing field shows its degraded marker and the other
\* fields are computed normally.
C4_TickNeverRejects == ret # "rejected" /\ DegradedMarkers

\* C5: ticks do not overlap; at most one execution of updateStatusBarItem
\* is between its start and its write of the status bar at any time.
C5_TicksDoNotOverlap == Len(ticks) <= 1

\* The oldest tick under way writes the status bar and ends.
OldestTickCompletes == ticks # <<>> /\ ticks' = Tail(ticks) /\ ret' = "written"

\* C12: every tick that starts eventually writes the status bar, also when
\* its disk command never exits: as long as ticks are under way, the
\* oldest of them completes, again and again.
C12_EveryTickCompletes == <>[](ticks = <<>>) \/ []<><<OldestTickCompletes>>_vars

\* A tick waits for a disk command that hangs while a later tick has
\* written the status bar.
C12_WitnessStalled == Stalled # {} /\ ret = "written" /\ statusBar.written

\* The readFile callback of the oldest tick under way runs: the network
\* tracker takes the sample of that tick.
OldestTickSamplesNet ==
    /\ ticks # <<>> /\ ticks[1].pc = "traf"
    /\ ticks' = Tail(ticks)

\* C17: within a tick the network tracker does not wait for the disk
\* command: on Linux, as long as ticks are under way, the network sample of
\* the oldest of them is taken, also when its disk command is slow or
\* hangs.
C17_NetSampleDoesNotWaitForDisk ==
    <>[](platform # "linux" \/ ticks = <<>>) \/ []<><<OldestTickSamplesNet>>_vars

\* On Linux the disk command of a tick hangs and no network sample has
\* been taken.
C17_WitnessNoSample ==
    /\ platform = "linux" /\ Stalled # {}
    /\ prevNet.time = 0 /\ ~statusBar.written

\* C20: the status bar is written in the order in which the ticks started;
\* once a tick has written it, no tick that started earlier writes it
\* afterwards.
C20_WritesInStartOrder == ret = "written" => ~arg.late

\* The status bar shows the values of a tick that started before the tick
\* whose values it showed already.
C20_WitnessLateWrite ==
    /\ ret = "written" /\ arg.late
    /\ statusBar.written /\ ticks = <<>>

=============================================================================
